---- MODULE Spec2Model ----
(***************************************************************************)
(* Label layout engine of brotherql_grocylabels: the text wrapper          *)
(* (app/imaging/text.py), the label layout (app/imaging/labels.py) and the *)
(* barcode adapter (app/imaging/barcodes.py).                              *)
(*                                                                         *)
(* Strings are sequences of one-character strings.  A font is a record of  *)
(* per-glyph advance widths (getlength is their sum), the nominal size and *)
(* the bounding-box offsets; widths are integers (pixels).                 *)
(***************************************************************************)
EXTENDS Integers, Sequences, FiniteSets, TLC

-----------------------------------------------------------------------------
(* Bounds of the model *)

\* longest text handed to wrap_text directly
MaxLen == 4
\* largest max_width handed to wrap_text directly
MaxWidth == 8
\* largest max_lines
MaxLines == 2
\* most passes of the outer loop of _create_lines that are followed
MaxIterations == 10

-----------------------------------------------------------------------------
(* Strings *)

Chars == {"A", "i", " ", "\n"}

Whitespace == {" ", "\n"}

Ellipsis == <<".", ".", ".">>

Max(a, b) == IF a >= b THEN a ELSE b

\* s[:n] for n >= 0
Take(s, n) == SubSeq(s, 1, IF n < Len(s) THEN n ELSE Len(s))

\* s[n:] for n >= 0
Drop(s, n) == SubSeq(s, n + 1, Len(s))

\* int(a / b) for b > 0: Python's int() truncates toward zero
IntDiv(a, b) == IF a >= 0 THEN a \div b ELSE -((-a) \div b)

\* all strings over Chars of length at most n
StringsUpTo(n) == UNION {[1..k -> Chars] : k \in 0..n}

\* sep.join(parts)
RECURSIVE Join(_, _)
Join(parts, sep) ==
    IF parts = <<>> THEN <<>>
    ELSE IF Len(parts) = 1 THEN parts[1]
    ELSE parts[1] \o sep \o Join(Tail(parts), sep)

\* text.split(): maximal runs of non-whitespace, in order
RECURSIVE SplitFrom(_, _, _)
SplitFrom(s, cur, acc) ==
    IF s = <<>> THEN (IF cur = <<>> THEN acc ELSE Append(acc, cur))
    ELSE IF Head(s) \in Whitespace
         THEN SplitFrom(Tail(s), <<>>, IF cur = <<>> THEN acc ELSE Append(acc, cur))
         ELSE SplitFrom(Tail(s), Append(cur, Head(s)), acc)

Split(s) == SplitFrom(s, <<>>, <<>>)

\* text.split('\n'): the newline-separated segments (always at least one)
RECURSIVE SplitLinesFrom(_, _, _)
SplitLinesFrom(s, cur, acc) ==
    IF s = <<>> THEN Append(acc, cur)
    ELSE IF Head(s) = "\n"
         THEN SplitLinesFrom(Tail(s), <<>>, Append(acc, cur))
         ELSE SplitLinesFrom(Tail(s), Append(cur, Head(s)), acc)

SplitLines(s) == SplitLinesFrom(s, <<>>, <<>>)

\* longer texts: three words, an overlong word, repeated and mixed whitespace
SampleTexts ==
    { <<"A", " ", "A", " ", "A">>,
      <<"A", "i", " ", "A", " ", "i", "A">>,
      <<"A", "A", "A", "A", "A", "A", "A">>,
      <<"A", "A", "A", "A", " ", "A", " ", "A">>,
      <<"A", " ", " ", "A", "\n", "A", " ", "A">>,
      <<"A", "A", "A", "A", "A", "A", "A", " ", "i">> }

\* texts handed to wrap_text directly
WrapTexts == StringsUpTo(MaxLen) \cup SampleTexts

-----------------------------------------------------------------------------
(* Fonts *)

Glyphs == Chars \cup {".", "-"}

\* font.getlength(s)
RECURSIVE getlength(_, _)
getlength(font, s) ==
    IF s = <<>> THEN 0 ELSE font.w[Head(s)] + getlength(font, Tail(s))

MkFont(wA, wi, wsp, wnl, wdot, wdash, size, top, bottom) ==
    [w |-> [c \in Glyphs |->
               CASE c = "A" -> wA
                 [] c = "i" -> wi
                 [] c = " " -> wsp
                 [] c = "\n" -> wnl
                 [] c = "." -> wdot
                 [] c = "-" -> wdash],
     size |-> size, top |-> top, bottom |-> bottom]

\* fonts handed to wrap_text directly
WrapFonts == {MkFont(2, 1, 1, 0, 1, 1, 4, 1, 4), MkFont(1, 1, 2, 1, 1, 2, 3, 0, 3)}

-----------------------------------------------------------------------------
(* app/imaging/text.py *)

\* _truncate_text appending the ellipsis unconditionally
_truncate_text_always_ellipsis(text, font, max_width) ==
    LET max_chars == Max(1, IntDiv(max_width, getlength(font, <<"A">>)))
        truncated == Take(text, max_chars) \o Ellipsis
    IN  [text |-> truncated, width |-> getlength(font, truncated)]

_truncate_text(text, font, max_width) ==
    LET max_chars == Max(1, IntDiv(max_width, getlength(font, <<"A">>)))
        truncated == Take(text, max_chars)
                        \o (IF Len(text) > max_chars THEN Ellipsis ELSE <<>>)
    IN  [text |-> truncated, width |-> getlength(font, truncated)]

\* the body of the loop of _break_long_words, breaking only words wider than max_width
BreakWord_wider_only(word, font, max_width) ==
    LET min_char_width == getlength(font, <<"A">>)
    IN  IF getlength(font, word) > max_width
        THEN IF 2 * max_width < 3 * min_char_width
             THEN <<Take(word, 1)>>
             ELSE LET mid == Len(word) \div 2
                  IN  <<Append(Take(word, mid), "-"), Drop(word, mid)>>
        ELSE <<word>>

\* the body of the loop of _break_long_words: what one word adds to result
BreakWord(word, font, max_width) ==
    LET min_char_width == getlength(font, <<"A">>)
    IN  IF getlength(font, word) >= max_width
        THEN IF 2 * max_width < 3 * min_char_width
             THEN <<Take(word, 1)>>
             ELSE LET mid == Len(word) \div 2
                  IN  <<Append(Take(word, mid), "-"), Drop(word, mid)>>
        ELSE <<word>>

RECURSIVE _break_long_words(_, _, _)
_break_long_words(words, font, max_width) ==
    IF words = <<>> THEN <<>>
    ELSE BreakWord(Head(words), font, max_width)
             \o _break_long_words(Tail(words), font, max_width)

\* the test of the inner loop of _create_lines accepting a line of exactly max_width
Fits_or_equal(font, test_line, max_width) == getlength(font, test_line) <= max_width

\* the test of the inner loop of _create_lines
Fits(font, test_line, max_width) == getlength(font, test_line) < max_width

\* the guard of the forced fallback never taken
ForcedFallback_never(line_words, words_copy) == FALSE

\* if not line_words and words_copy
ForcedFallback(line_words, words_copy) == line_words = <<>> /\ words_copy # <<>>

\* the forced fallback keeping two characters of the word
ForcedPiece_two(word) == Take(word, 2)

\* words_copy.pop(0)[:1]
ForcedPiece(word) == Take(word, 1)

\* the inner while loop of _create_lines: <<line_words, words_copy>> at its exit
RECURSIVE FillLine(_, _, _, _)
FillLine(line_words, words_copy, font, max_width) ==
    IF words_copy = <<>> THEN <<line_words, words_copy>>
    ELSE LET word == Head(words_copy)
             test_line == Join(Append(line_words, word), <<" ">>)
         IN  IF Fits(font, test_line, max_width)
             THEN FillLine(Append(line_words, word), Tail(words_copy), font, max_width)
             ELSE <<line_words, words_copy>>

\* the outer while loop of _create_lines
RECURSIVE CreateLinesFrom(_, _, _, _)
CreateLinesFrom(lines, words_copy, font, max_width) ==
    IF words_copy = <<>> THEN lines
    ELSE LET filled == FillLine(<<>>, words_copy, font, max_width)
             forced == ForcedFallback(filled[1], filled[2])
             line_words == IF forced THEN <<ForcedPiece(Head(filled[2]))>> ELSE filled[1]
             rest == IF forced THEN Tail(filled[2]) ELSE filled[2]
             lines2 == IF line_words # <<>>
                       THEN Append(lines, Join(line_words, <<" ">>))
                       ELSE lines
         IN  CreateLinesFrom(lines2, rest, font, max_width)

_create_lines(words, font, max_width) == CreateLinesFrom(<<>>, words, font, max_width)

\* _limit_lines comparing with < instead of <=
_limit_lines_strict(lines, max_lines, font) ==
    IF Len(lines) < max_lines \/ lines = <<>> THEN lines
    ELSE LET limited_lines == Take(lines, max_lines)
         IN  [limited_lines EXCEPT ![Len(limited_lines)] = @ \o Ellipsis]

\* _limit_lines truncating without marking the truncation
_limit_lines_no_ellipsis(lines, max_lines, font) == Take(lines, max_lines)

_limit_lines(lines, max_lines, font) ==
    IF Len(lines) <= max_lines THEN lines
    ELSE LET limited_lines == Take(lines, max_lines)
         IN  [limited_lines EXCEPT ![max_lines] = @ \o Ellipsis]

RECURSIVE MaxLength(_, _)
MaxLength(font, lines) ==
    IF lines = <<>> THEN 0
    ELSE Max(getlength(font, Head(lines)), MaxLength(font, Tail(lines)))

\* the lines wrap_text builds on its normal path, before they are joined
WrapLines(text, font, max_width, max_lines) ==
    _limit_lines(_create_lines(_break_long_words(Split(text), font, max_width),
                               font, max_width),
                 max_lines, font)

wrap_text(text, font, max_width, max_lines) ==
    LET min_width == getlength(font, <<"A">>) * 3
    IN  IF max_width < min_width
        THEN _truncate_text(text, font, max_width)
        ELSE LET lines == WrapLines(text, font, max_width, max_lines)
             IN  [text |-> Join(lines, <<"\n">>), width |-> MaxLength(font, lines)]

-----------------------------------------------------------------------------
(* app/imaging.py: the original wrapText *)

Reverse(s) == [k \in 1..Len(s) |-> s[Len(s) + 1 - k]]

\* parts[-1], the item parts.pop() takes
Last(s) == s[Len(s)]

\* parts after parts.pop()
Front(s) == SubSeq(s, 1, Len(s) - 1)

\* text.split(" "): the segments between single spaces (always at least one)
RECURSIVE SplitSpaceFrom(_, _, _)
SplitSpaceFrom(s, cur, acc) ==
    IF s = <<>> THEN Append(acc, cur)
    ELSE IF Head(s) = " "
         THEN SplitSpaceFrom(Tail(s), <<>>, Append(acc, cur))
         ELSE SplitSpaceFrom(Tail(s), Append(cur, Head(s)), acc)

SplitSpace(s) == SplitSpaceFrom(s, <<>>, <<>>)

\* the loop that breaks long parts; parts is reversed, so the second half of
\* a broken part is appended before the first
RECURSIVE trimmedParts(_, _, _)
trimmedParts(parts, font, maxWidth) ==
    IF parts = <<>> THEN <<>>
    ELSE LET part == Head(parts)
             min_char_width == getlength(font, <<"A">>)
             pieces ==
                 IF getlength(font, part) >= maxWidth
                 THEN IF 2 * maxWidth < 3 * min_char_width
                      THEN <<Take(part, 1)>>
                      ELSE LET midpoint == Len(part) \div 2
                           IN  <<Drop(part, midpoint), Append(Take(part, midpoint), "-")>>
                 ELSE <<part>>
         IN  pieces \o trimmedParts(Tail(parts), font, maxWidth)

\* the inner while loop of wrapText: <<nextLine, parts>> at its exit
RECURSIVE FillNextLine(_, _, _, _)
FillNextLine(nextLine, parts, font, maxWidth) ==
    IF parts = <<>> THEN <<nextLine, parts>>
    ELSE LET nextPart == Last(parts)
         IN  IF getlength(font, Join(nextLine, <<" ">>) \o <<" ">> \o nextPart) < maxWidth
             THEN FillNextLine(Append(nextLine, nextPart), Front(parts), font, maxWidth)
             ELSE <<nextLine, parts>>

\* the outer while loop of wrapText: the lines and the longest length seen
RECURSIVE LinesFromParts(_, _, _, _, _)
LinesFromParts(lines, longestLine, parts, font, maxWidth) ==
    IF parts = <<>> THEN [lines |-> lines, longestLine |-> longestLine]
    ELSE LET filled == FillNextLine(<<>>, parts, font, maxWidth)
             forced == filled[1] = <<>> /\ filled[2] # <<>>
             nextLine == IF forced THEN <<Take(Last(filled[2]), 1)>> ELSE filled[1]
             rest == IF forced THEN Front(filled[2]) ELSE filled[2]
             joined == Join(nextLine, <<" ">>)
         IN  IF nextLine # <<>>
             THEN LinesFromParts(Append(lines, joined),
                                 Max(longestLine, getlength(font, joined)),
                                 rest, font, maxWidth)
             ELSE LinesFromParts(lines, longestLine, rest, font, maxWidth)

wrapText(text, font, maxWidth, maxLines) ==
    LET min_reasonable_width == getlength(font, <<"A">>) * 3
    IN  IF maxWidth < min_reasonable_width
        THEN LET max_chars == Max(1, IntDiv(maxWidth, getlength(font, <<"A">>)))
                 truncated == Take(text, max_chars)
                                 \o (IF Len(text) > max_chars THEN Ellipsis ELSE <<>>)
             IN  [text |-> truncated, width |-> getlength(font, truncated)]
        ELSE LET parts == trimmedParts(Reverse(SplitSpace(text)), font, maxWidth)
                 built == LinesFromParts(<<>>, 0, parts, font, maxWidth)
             IN  IF Len(built.lines) > maxLines
                 THEN LET kept == Take(built.lines, maxLines)
                          lines == [kept EXCEPT ![maxLines] = @ \o Ellipsis]
                      IN  [text |-> Join(lines, <<"\n">>),
                           width |-> Max(built.longestLine,
                                         getlength(font, lines[maxLines]))]
                 ELSE [text |-> Join(built.lines, <<"\n">>),
                       width |-> built.longestLine]

-----------------------------------------------------------------------------
(* Images (PIL): a raster is known by its size <<width, height>> *)

NoImage == <<0, 0>>

\* Image.resize raises ValueError unless both dimensions are positive
ResizeRaises(new_size) == new_size[1] < 1 \/ new_size[2] < 1

\* a raster handed back to the caller: its size and whether it was turned
Unrotated(size) == [size |-> size, rotated |-> FALSE]

\* image.rotate(-90) without expand=True: the bounds are kept
rotate_keep_bounds(size) == [size |-> size, rotated |-> TRUE]

\* image.rotate(-90, expand=True): a quarter turn, the bounds follow
rotate(size) == [size |-> <<size[2], size[1]>>, rotated |-> TRUE]

\* font.getbbox(text) = (left, top, right, bottom)
getbbox(font, text) ==
    IF text = <<>> THEN <<0, 0, 0, 0>>
    ELSE <<0, font.top, getlength(font, text), font.bottom>>

-----------------------------------------------------------------------------
(* app/imaging/labels.py *)

\* the max_width _calculate_endless_width hands to wrap_text
EndlessWrapWidth == 1000

\* the factors _scale_barcode_fixed tries, in order
FixedScales == <<8, 6, 4, 2>>

\* LabelLayout.__init__ assigning (height, width) the wrong way round
LabelLayout_swapped(config) ==
    LET is_endless == config.label_size[2] = 0
    IN  [is_endless |-> is_endless,
         height |-> config.label_size[1],
         width |-> config.label_size[2],
         line_spacing |-> 4,
         due_date_font |-> IF config.has_due_date_font
                           THEN config.due_date_font ELSE config.text_font]

\* LabelLayout.__init__
LabelLayout(config) ==
    LET is_endless == config.label_size[2] = 0
    IN  [is_endless |-> is_endless,
         height |-> IF is_endless THEN config.label_size[1] ELSE config.label_size[2],
         width |-> IF is_endless THEN config.label_size[2] ELSE config.label_size[1],
         line_spacing |-> 4,
         due_date_font |-> IF config.has_due_date_font
                           THEN config.due_date_font ELSE config.text_font]

\* int(n * (height / d)) in IEEE-754 double arithmetic.  The quotient is
\* rounded before it is multiplied, so when d divides n * height the product
\* can fall just below the exact integer and truncate to one less; this is
\* the set of triples <<height, d, n>> with height <= 16, d <= 12, n <= 12 where
\* it does (15 / 11 * 11 evaluates to 14.999999999999998).
ScaleRoundsDown ==
    { <<15, 11, 11>> }

ScaleDim(n, height, d) ==
    IF <<height, d, n>> \in ScaleRoundsDown
    THEN (n * height) \div d - 1
    ELSE (n * height) \div d

\* the size _scale_barcode_endless resizes the barcode to
EndlessBarcodeSize(self, config) ==
    <<ScaleDim(config.barcode[1], self.height, config.barcode[2]),
      ScaleDim(config.barcode[2], self.height, config.barcode[2])>>

\* the first factor of scales, tried in order, that fits; 1 if none does
RECURSIVE FirstFit(_, _, _, _)
FirstFit(scales, size, height, max_barcode_width) ==
    IF scales = <<>> THEN 1
    ELSE IF /\ size[2] * Head(scales) < height
            /\ size[1] * Head(scales) <= max_barcode_width
         THEN Head(scales)
         ELSE FirstFit(Tail(scales), size, height, max_barcode_width)

\* _scale_barcode_fixed without the factor 6
_scale_barcode_fixed_skip6(self, config) ==
    LET barcode == config.barcode
        max_barcode_width == self.width \div 2
        scale == IF 10 * self.height > 4 * self.height /\ barcode[1] <= max_barcode_width
                 THEN FirstFit(<<8, 4, 2>>, barcode, self.height, max_barcode_width)
                 ELSE 1
    IN  <<barcode[1] * scale, barcode[2] * scale>>

\* the size of the barcode _scale_barcode_fixed returns
_scale_barcode_fixed(self, config) ==
    LET barcode == config.barcode
        max_barcode_width == self.width \div 2
        scale == IF 10 * self.height > 4 * self.height /\ barcode[1] <= max_barcode_width
                 THEN FirstFit(FixedScales, barcode, self.height, max_barcode_width)
                 ELSE 1
    IN  <<barcode[1] * scale, barcode[2] * scale>>

_create_date_display(config) ==
    LET purchased == config.purchased_date
        best_before == config.best_before_date
    IN  IF purchased # <<>> /\ best_before # <<>>
        THEN purchased \o <<" ", "-", " ">> \o best_before
        ELSE IF best_before # <<>> THEN best_before ELSE purchased

\* _create_amount_display falling back to the unit when there is no amount
_create_amount_display_or_unit(config) ==
    LET amount == config.amount
        unit == config.unit_name
    IN  IF amount # <<>> /\ unit # <<>>
        THEN amount \o <<" ">> \o unit
        ELSE IF amount # <<>> THEN amount ELSE unit

_create_amount_display(config) ==
    LET amount == config.amount
        unit == config.unit_name
    IN  IF amount # <<>> /\ unit # <<>>
        THEN amount \o <<" ">> \o unit
        ELSE amount

\* _calculate_endless_width without the minimum width
_calculate_endless_width_no_floor(self, config, barcode) ==
    LET name_text_width == wrap_text(config.text, config.text_font, EndlessWrapWidth,
                                     config.text_max_lines).width
        date_display == _create_date_display(config)
        amount_display == _create_amount_display(config)
        w1 == IF date_display # <<>>
              THEN Max(name_text_width, getlength(self.due_date_font, date_display))
              ELSE name_text_width
        text_width_needed ==
              IF amount_display # <<>>
              THEN Max(w1, getlength(self.due_date_font, amount_display))
              ELSE w1
        gap == config.text_font.size \div 2
    IN  barcode[1] + gap + text_width_needed

_calculate_endless_width(self, config, barcode) ==
    LET name_text_width == wrap_text(config.text, config.text_font, EndlessWrapWidth,
                                     config.text_max_lines).width
        date_display == _create_date_display(config)
        amount_display == _create_amount_display(config)
        w1 == IF date_display # <<>>
              THEN Max(name_text_width, getlength(self.due_date_font, date_display))
              ELSE name_text_width
        text_width_needed ==
              IF amount_display # <<>>
              THEN Max(w1, getlength(self.due_date_font, amount_display))
              ELSE w1
        gap == config.text_font.size \div 2
        calculated_width == barcode[1] + gap + text_width_needed
        min_width == barcode[1] + (4 * self.height) \div 10
    IN  Max(calculated_width, min_width)

\* where _place_barcode pastes the barcode
_place_barcode(self, barcode) ==
    <<0, IF self.is_endless THEN 0 ELSE (self.height - barcode[2]) \div 2>>

_calculate_text_y_endless(self, config, text) ==
    LET amount_display == _create_amount_display(config)
        date_display == _create_date_display(config)
        bbox == getbbox(config.text_font, text)
        text_top == bbox[2]
        text_height == bbox[4] - bbox[2]
    IN  IF amount_display # <<>> /\ date_display = <<>>
        THEN LET amount_height == self.due_date_font.size
                 available_height == self.height - amount_height
             IN  amount_height + (available_height - text_height) \div 2 - text_top
        ELSE IF date_display = <<>> /\ amount_display = <<>>
        THEN (self.height - text_height) \div 2 - text_top
        ELSE IF amount_display # <<>> THEN self.due_date_font.size ELSE 0

\* what _draw_main_text hands to draw.multiline_text
_draw_main_text(self, config, barcode) ==
    IF self.is_endless
    THEN [name_text |-> config.text,
          xy |-> <<barcode[1] + config.text_font.size \div 2,
                   _calculate_text_y_endless(self, config, config.text)>>,
          align |-> "left"]
    ELSE LET name_text == wrap_text(config.text, config.text_font,
                                    self.width - barcode[1], config.text_max_lines).text
             text_width == getlength(config.text_font, SplitLines(name_text)[1])
         IN  [name_text |-> name_text,
              xy |-> <<barcode[1] + (self.width - barcode[1] - text_width) \div 2, 0>>,
              align |-> "center"]

\* what _draw_amount hands to draw.text
_draw_amount(self, amount_display) ==
    [text |-> amount_display,
     xy |-> <<self.width - getlength(self.due_date_font, amount_display), 0>>]

\* what _draw_date hands to draw.text
_draw_date(self, config, date_display, barcode) ==
    LET date_width == getlength(self.due_date_font, date_display)
        date_height == getbbox(self.due_date_font, date_display)[4]
        text_width == getlength(config.text_font, config.text)
        text_x == barcode[1] + config.text_font.size \div 2
        date_x == IF self.is_endless
                  THEN IF date_width > text_width THEN text_x
                       ELSE text_x + text_width - date_width
                  ELSE self.width - date_width
    IN  [text |-> date_display, xy |-> <<date_x, self.height - date_height>>]

NotDrawn == [text |-> <<>>, xy |-> <<0, 0>>]

\* what _draw_metadata draws: the amount and the date, each only if non-empty
_draw_metadata(self, config, barcode) ==
    LET amount_display == _create_amount_display(config)
        date_display == _create_date_display(config)
    IN  [amount |-> IF amount_display # <<>>
                    THEN _draw_amount(self, amount_display) ELSE NotDrawn,
         date |-> IF date_display # <<>>
                  THEN _draw_date(self, config, date_display, barcode) ELSE NotDrawn]

-----------------------------------------------------------------------------
(* app/imaging/barcodes.py *)

\* most text characters a DataMatrix symbol holds (144 x 144); treepoem
\* raises for more, as it does whenever its Ghostscript run fails
DataMatrixCapacity == 2335

\* most bytes a QR symbol holds at version 40, error correction L; beyond it
\* qr.make(fit=True) raises DataOverflowError
QRCapacity == 2953

\* treepoem.generate_barcode(barcode_type='datamatrix', data=text) raises
DataMatrixRaises(text, treepoem_ok) == ~treepoem_ok \/ text.len > DataMatrixCapacity

\* qr.make(fit=True) raises
QRRaises(text) == text.len > QRCapacity

\* length of the longest short payload
MaxPayload == 3

\* payloads: short ones, and ones at and just past each symbol's capacity
Payloads ==
    {[name |-> "short", len |-> n] : n \in 0..MaxPayload}
        \cup {[name |-> "long", len |-> n] :
                 n \in {DataMatrixCapacity, DataMatrixCapacity + 1,
                        QRCapacity, QRCapacity + 1}}

BarcodeTypes == {"QRCode", "DataMatrix", "Code128"}

\* create_barcode sending every tag but "DataMatrix" to the QR encoder
IsQRCode_unless_datamatrix(barcode_type) == barcode_type # "DataMatrix"

\* create_barcode: if barcode_type == "QRCode"
IsQRCode(barcode_type) == barcode_type = "QRCode"

-----------------------------------------------------------------------------
(* Inputs of create_label_image *)

\* largest side of the small square barcodes
MaxBarcodeSide == 2

SmallFont == MkFont(2, 1, 1, 0, 1, 1, 4, 1, 4)

\* a font whose glyphs are wide enough for a short text to reach EndlessWrapWidth
BigFont == MkFont(300, 100, 100, 0, 100, 100, 400, 100, 400)

\* <<text_font, has_due_date_font, due_date_font>>
LabelFonts == { <<SmallFont, FALSE, SmallFont>>, <<BigFont, TRUE, SmallFont>> }

LabelTexts ==
    { <<>>, <<"A">>, <<"A", " ", " ", "A">>, <<"A", "A", "A", "A">>,
      <<"A", " ", "A", "A", "A">> }

FixedSizes == {2, 3, 4, 8, 12, 16, 17} \X {1, 2, 3, 5, 7, 9}

EndlessSizes == {1, 5, 12, 13, 15} \X {0}

LabelSizes == FixedSizes \cup EndlessSizes

Barcodes ==
    {<<n, n>> : n \in 1..MaxBarcodeSide} \cup { <<1, 2>>, <<11, 11>> }

Dates == { <<>>, <<"A", "A">> }

PurchasedDates == { <<>>, <<"i">> }

Amounts == { <<>>, <<"i">> }

Units == { <<>>, <<"A">> }

-----------------------------------------------------------------------------
(* State *)

VARIABLES
    wrap_pc,     \* "idle" before the direct wrap_text call, "returned" after it
    wrap_args,   \* arguments of the direct wrap_text call
    wrap_ret,    \* its return value
    label_pc,    \* position of the create_label_image call
    config,      \* its LabelConfig
    self,        \* its LabelLayout
    barcode,     \* size of the processed barcode (local of create_label)
    label,       \* the canvas: its size and what was pasted and drawn on it
    image,       \* the returned raster
    barcode_pc,  \* position of the create_barcode call
    barcode_args,\* its arguments, and whether the DataMatrix encoder works
    barcode_ret, \* the bitmap it returned: the symbology and the encoded text
    barcode_calls, \* the encoder functions the call entered, in order
    steps_pc,    \* position of the wrap_text call followed loop by loop
    steps_args,  \* its arguments
    frame,       \* locals of _create_lines: words, words_copy, lines, line_words
    iterations,  \* passes of the outer loop of _create_lines started so far
    trail,       \* the words taken off words_copy for good, and how: fitted or forced
    line_from,   \* for each line appended: whether it was forced, and its words
    steps_ret,   \* the return value of that call
    break_pc,    \* "idle" before the direct _break_long_words call, "returned" after
    break_args,  \* arguments of the direct _break_long_words call
    break_ret,   \* its return value
    calls,       \* the concurrent create_label_image calls: position and locals
    layouts,     \* the LabelLayout objects, by identity
    rasters      \* the PIL images holding barcodes, by identity: their sizes

wrap_vars == <<wrap_pc, wrap_args, wrap_ret>>

label_vars == <<label_pc, config, self, barcode, label, image>>

barcode_vars == <<barcode_pc, barcode_args, barcode_ret, barcode_calls>>

steps_vars ==
    <<steps_pc, steps_args, frame, iterations, trail, line_from, steps_ret,
      break_pc, break_args, break_ret>>

render_vars == <<calls, layouts, rasters>>

vars == <<wrap_vars, label_vars, barcode_vars, steps_vars, render_vars>>

BlankLabel ==
    [size |-> NoImage, barcode_xy |-> <<0, 0>>,
     main_text |-> [name_text |-> <<>>, xy |-> <<0, 0>>, align |-> "left"],
     metadata |-> [amount |-> NotDrawn, date |-> NotDrawn]]

NoConfig ==
    [label_size |-> <<0, 0>>, text |-> <<>>, text_font |-> SmallFont,
     text_max_lines |-> 0, barcode |-> NoImage, best_before_date |-> <<>>,
     purchased_date |-> <<>>, amount |-> <<>>, unit_name |-> <<>>,
     has_due_date_font |-> FALSE, due_date_font |-> SmallFont]

WrapInit ==
    /\ wrap_pc = "idle"
    /\ wrap_args = [text |-> <<>>, font |-> SmallFont, max_width |-> 1, max_lines |-> 1]
    /\ wrap_ret = [text |-> <<>>, width |-> 0]

LabelInit ==
    /\ label_pc = "idle"
    /\ config = NoConfig
    /\ self = LabelLayout(NoConfig)
    /\ barcode = NoImage
    /\ label = BlankLabel
    /\ image = Unrotated(NoImage)

NoPayload == [name |-> "", len |-> 0]

NoBitmap == [symbology |-> "none", data |-> NoPayload]

BarcodeInit ==
    /\ barcode_pc = "idle"
    /\ barcode_args = [text |-> NoPayload, barcode_type |-> "", treepoem_ok |-> TRUE]
    /\ barcode_ret = NoBitmap
    /\ barcode_calls = <<>>

NoFrame == [words |-> <<>>, words_copy |-> <<>>, lines |-> <<>>, line_words |-> <<>>]

StepsInit ==
    /\ steps_pc = "idle"
    /\ steps_args = [text |-> <<>>, font |-> SmallFont, max_width |-> 1, max_lines |-> 1]
    /\ frame = NoFrame
    /\ iterations = 0
    /\ trail = <<>>
    /\ line_from = <<>>
    /\ steps_ret = [text |-> <<>>, width |-> 0]
    /\ break_pc = "idle"
    /\ break_args = [words |-> <<>>, font |-> SmallFont, max_width |-> 1]
    /\ break_ret = <<>>

\* the two request threads rendering at the same time
Callers == {1, 2}

\* LabelLayout(config) constructs one object for all calls
NewLayout_shared(c) == 1

\* LabelLayout(config) constructs a new object for each call
NewLayout(c) == c

\* the barcode image the caller passes in
SuppliedRaster(c) == c

\* barcode.resize(...) returns a new image
ResizedRaster(c) == c + 2

NoCall ==
    [pc |-> "idle", config |-> NoConfig, layout |-> 0, barcode |-> 0,
     label |-> BlankLabel, image |-> Unrotated(NoImage)]

RenderInit ==
    /\ calls = [c \in Callers |-> NoCall]
    /\ layouts = [id \in Callers |-> LabelLayout(NoConfig)]
    /\ rasters = [id \in 1..4 |-> NoImage]

Init == WrapInit /\ LabelInit /\ BarcodeInit /\ StepsInit /\ RenderInit

-----------------------------------------------------------------------------
(* wrap_text called directly *)

\* a caller invokes wrap_text(text, font, max_width, max_lines)
CallWrapText ==
    /\ wrap_pc = "idle"
    /\ \E text \in WrapTexts, font \in WrapFonts,
          max_width \in 1..MaxWidth, max_lines \in 1..MaxLines :
        /\ wrap_pc' = "returned"
        /\ wrap_args' = [text |-> text, font |-> font,
                         max_width |-> max_width, max_lines |-> max_lines]
        /\ wrap_ret' = wrap_text(text, font, max_width, max_lines)
        /\ UNCHANGED <<label_vars, barcode_vars, steps_vars, render_vars>>

-----------------------------------------------------------------------------
(* create_label_image *)

\* create_label_image builds the LabelConfig and the LabelLayout
CreateLabelImage ==
    /\ label_pc = "idle"
    /\ \E label_size \in LabelSizes, text \in LabelTexts, fonts \in LabelFonts,
          text_max_lines \in 1..MaxLines, bc \in Barcodes,
          best_before_date \in Dates, purchased_date \in PurchasedDates,
          amount \in Amounts, unit_name \in Units :
        /\ config' = [label_size |-> label_size, text |-> text,
                      text_font |-> fonts[1], text_max_lines |-> text_max_lines,
                      barcode |-> bc, best_before_date |-> best_before_date,
                      purchased_date |-> purchased_date, amount |-> amount,
                      unit_name |-> unit_name,
                      has_due_date_font |-> fonts[2], due_date_font |-> fonts[3]]
        /\ self' = LabelLayout(config')
        /\ label_pc' = "constructed"
        /\ UNCHANGED <<barcode, label, image, wrap_vars, barcode_vars, steps_vars, render_vars>>

\* create_label: barcode = self._process_barcode(), endless label
ProcessBarcodeEndless ==
    /\ label_pc = "constructed"
    /\ self.is_endless
    /\ LET new_size == EndlessBarcodeSize(self, config)
       IN  IF ResizeRaises(new_size)
           THEN label_pc' = "raised" /\ UNCHANGED barcode
           ELSE label_pc' = "barcode" /\ barcode' = new_size
    /\ UNCHANGED <<config, self, label, image, wrap_vars, barcode_vars, steps_vars, render_vars>>

\* create_label: barcode = self._process_barcode(), fixed label
ProcessBarcodeFixed ==
    /\ label_pc = "constructed"
    /\ ~self.is_endless
    /\ barcode' = _scale_barcode_fixed(self, config)
    /\ label_pc' = "barcode"
    /\ UNCHANGED <<config, self, label, image, wrap_vars, barcode_vars, steps_vars, render_vars>>

\* create_label: if self.width == 0, self.width = self._calculate_endless_width(barcode)
ResolveWidth ==
    /\ label_pc = "barcode"
    /\ self' = IF self.width = 0
               THEN [self EXCEPT !.width = _calculate_endless_width(self, config, barcode)]
               ELSE self
    /\ label_pc' = "sized"
    /\ UNCHANGED <<config, barcode, label, image, wrap_vars, barcode_vars, steps_vars, render_vars>>

\* create_label: Image.new, _place_barcode and _draw_content
Compose ==
    /\ label_pc = "sized"
    /\ label' = [size |-> <<self.width, self.height>>,
                 barcode_xy |-> _place_barcode(self, barcode),
                 main_text |-> _draw_main_text(self, config, barcode),
                 metadata |-> _draw_metadata(self, config, barcode)]
    /\ label_pc' = "composed"
    /\ UNCHANGED <<config, self, barcode, image, wrap_vars, barcode_vars, steps_vars, render_vars>>

\* create_label: return label.rotate(-90, expand=True) if self.is_endless else label
ReturnLabel ==
    /\ label_pc = "composed"
    /\ image' = IF self.is_endless THEN rotate(label.size) ELSE Unrotated(label.size)
    /\ label_pc' = "returned"
    /\ UNCHANGED <<config, self, barcode, label, wrap_vars, barcode_vars, steps_vars, render_vars>>

LabelNext ==
    \/ CreateLabelImage
    \/ ProcessBarcodeEndless
    \/ ProcessBarcodeFixed
    \/ ResolveWidth
    \/ Compose
    \/ ReturnLabel

-----------------------------------------------------------------------------
(* create_barcode *)

\* a caller invokes create_barcode(text, barcode_type)
CreateBarcode ==
    /\ barcode_pc = "idle"
    /\ \E text \in Payloads, barcode_type \in BarcodeTypes, treepoem_ok \in BOOLEAN :
          barcode_args' = [text |-> text, barcode_type |-> barcode_type,
                           treepoem_ok |-> treepoem_ok]
    /\ barcode_pc' = "create_barcode"
    /\ UNCHANGED <<barcode_ret, barcode_calls, wrap_vars, label_vars, steps_vars, render_vars>>

\* create_barcode: barcode_type == "QRCode", return create_qr_code(text)
DispatchQRCode ==
    /\ barcode_pc = "create_barcode"
    /\ IsQRCode(barcode_args.barcode_type)
    /\ barcode_pc' = "create_qr_code"
    /\ barcode_calls' = Append(barcode_calls, "create_qr_code")
    /\ UNCHANGED <<barcode_args, barcode_ret, wrap_vars, label_vars, steps_vars, render_vars>>

\* create_barcode: any other type, return create_datamatrix(text)
DispatchDataMatrix ==
    /\ barcode_pc = "create_barcode"
    /\ ~IsQRCode(barcode_args.barcode_type)
    /\ barcode_pc' = "create_datamatrix"
    /\ barcode_calls' = Append(barcode_calls, "create_datamatrix")
    /\ UNCHANGED <<barcode_args, barcode_ret, wrap_vars, label_vars, steps_vars, render_vars>>

\* create_datamatrix: the try block returns the treepoem bitmap
DataMatrixEncoded ==
    /\ barcode_pc = "create_datamatrix"
    /\ ~DataMatrixRaises(barcode_args.text, barcode_args.treepoem_ok)
    /\ barcode_ret' = [symbology |-> "datamatrix", data |-> barcode_args.text]
    /\ barcode_pc' = "returned"
    /\ UNCHANGED <<barcode_args, barcode_calls, wrap_vars, label_vars, steps_vars, render_vars>>

\* create_datamatrix: except Exception, return create_qr_code(text)
DataMatrixFallback ==
    /\ barcode_pc = "create_datamatrix"
    /\ DataMatrixRaises(barcode_args.text, barcode_args.treepoem_ok)
    /\ barcode_pc' = "create_qr_code"
    /\ barcode_calls' = Append(barcode_calls, "create_qr_code")
    /\ UNCHANGED <<barcode_args, barcode_ret, wrap_vars, label_vars, steps_vars, render_vars>>

\* create_qr_code returns the QR bitmap
QRCodeEncoded ==
    /\ barcode_pc = "create_qr_code"
    /\ ~QRRaises(barcode_args.text)
    /\ barcode_ret' = [symbology |-> "qr", data |-> barcode_args.text]
    /\ barcode_pc' = "returned"
    /\ UNCHANGED <<barcode_args, barcode_calls, wrap_vars, label_vars, steps_vars, render_vars>>

\* create_qr_code: qr.make raises; no handler is in scope, in create_qr_code,
\* in the except block of create_datamatrix or in create_barcode
QRCodeRaises ==
    /\ barcode_pc = "create_qr_code"
    /\ QRRaises(barcode_args.text)
    /\ barcode_pc' = "raised"
    /\ UNCHANGED <<barcode_args, barcode_ret, barcode_calls, wrap_vars, label_vars, steps_vars, render_vars>>

BarcodeNext ==
    \/ CreateBarcode
    \/ DispatchQRCode
    \/ DispatchDataMatrix
    \/ DataMatrixEncoded
    \/ DataMatrixFallback
    \/ QRCodeEncoded
    \/ QRCodeRaises

-----------------------------------------------------------------------------
(* wrap_text followed loop by loop, and _break_long_words called directly *)

\* wrap_text up to the first test of the outer loop of _create_lines
EnterWrapText ==
    /\ steps_pc = "idle"
    /\ break_pc = "idle"
    /\ \E text \in WrapTexts, font \in WrapFonts,
          max_width \in 1..MaxWidth, max_lines \in 1..MaxLines :
        /\ steps_args' = [text |-> text, font |-> font,
                          max_width |-> max_width, max_lines |-> max_lines]
        /\ IF max_width < getlength(font, <<"A">>) * 3
           THEN /\ steps_pc' = "returned"
                /\ steps_ret' = _truncate_text(text, font, max_width)
                /\ UNCHANGED frame
           ELSE LET words == _break_long_words(Split(text), font, max_width)
                IN  /\ steps_pc' = "outer"
                    /\ frame' = [words |-> words, words_copy |-> words,
                                 lines |-> <<>>, line_words |-> <<>>]
                    /\ UNCHANGED steps_ret
    /\ UNCHANGED <<iterations, trail, line_from, break_pc, break_args, break_ret,
                   wrap_vars, label_vars, barcode_vars, render_vars>>

\* _create_lines: while words_copy (true): line_words = []
StartLine ==
    /\ steps_pc = "outer"
    /\ frame.words_copy # <<>>
    /\ iterations < MaxIterations
    /\ frame' = [frame EXCEPT !.line_words = <<>>]
    /\ iterations' = iterations + 1
    /\ steps_pc' = "inner"
    /\ UNCHANGED <<steps_args, trail, line_from, steps_ret, break_pc, break_args,
                   break_ret, wrap_vars, label_vars, barcode_vars, render_vars>>

\* _create_lines: one pass of the inner loop, or its exit
TryWord ==
    /\ steps_pc = "inner"
    /\ IF frame.words_copy = <<>>
       THEN /\ steps_pc' = "close"
            /\ UNCHANGED <<frame, trail>>
       ELSE LET word == Head(frame.words_copy)
                test_line == Join(Append(frame.line_words, word), <<" ">>)
            IN  IF Fits(steps_args.font, test_line, steps_args.max_width)
                THEN /\ frame' = [frame EXCEPT !.line_words = Append(@, word),
                                               !.words_copy = Tail(@)]
                     /\ trail' = Append(trail, [word |-> word, forced |-> FALSE])
                     /\ steps_pc' = "inner"
                ELSE /\ steps_pc' = "close"
                     /\ UNCHANGED <<frame, trail>>
    /\ UNCHANGED <<steps_args, iterations, line_from, steps_ret, break_pc, break_args,
                   break_ret, wrap_vars, label_vars, barcode_vars, render_vars>>

\* _create_lines: the forced fallback and lines.append
CloseLine ==
    /\ steps_pc = "close"
    /\ LET forced == ForcedFallback(frame.line_words, frame.words_copy)
           line_words == IF forced THEN <<ForcedPiece(Head(frame.words_copy))>>
                         ELSE frame.line_words
           words_copy == IF forced THEN Tail(frame.words_copy) ELSE frame.words_copy
       IN  /\ frame' = [frame EXCEPT
                           !.line_words = line_words,
                           !.words_copy = words_copy,
                           !.lines = IF line_words # <<>>
                                     THEN Append(@, Join(line_words, <<" ">>))
                                     ELSE @]
           /\ trail' = IF forced
                       THEN Append(trail, [word |-> Head(frame.words_copy),
                                           forced |-> TRUE])
                       ELSE trail
           /\ line_from' = IF line_words # <<>>
                           THEN Append(line_from,
                                       [forced |-> forced,
                                        words |-> IF forced
                                                  THEN <<Head(frame.words_copy)>>
                                                  ELSE frame.line_words])
                           ELSE line_from
    /\ steps_pc' = "outer"
    /\ UNCHANGED <<steps_args, iterations, steps_ret, break_pc, break_args,
                   break_ret, wrap_vars, label_vars, barcode_vars, render_vars>>

\* _create_lines: while words_copy (false): return lines; wrap_text: _limit_lines,
\* longest_line and the return
ReturnWrapped ==
    /\ steps_pc = "outer"
    /\ frame.words_copy = <<>>
    /\ LET lines == _limit_lines(frame.lines, steps_args.max_lines, steps_args.font)
       IN  steps_ret' = [text |-> Join(lines, <<"\n">>),
                         width |-> MaxLength(steps_args.font, lines)]
    /\ steps_pc' = "returned"
    /\ UNCHANGED <<steps_args, frame, iterations, trail, line_from, break_pc,
                   break_args, break_ret, wrap_vars, label_vars, barcode_vars,
                   render_vars>>

\* a caller invokes _break_long_words(words, font, max_width)
CallBreakLongWords ==
    /\ break_pc = "idle"
    /\ steps_pc = "idle"
    /\ \E text \in WrapTexts, font \in WrapFonts, max_width \in 1..MaxWidth :
        /\ break_args' = [words |-> Split(text), font |-> font, max_width |-> max_width]
        /\ break_ret' = _break_long_words(Split(text), font, max_width)
    /\ break_pc' = "returned"
    /\ UNCHANGED <<steps_pc, steps_args, frame, iterations, trail, line_from,
                   steps_ret, wrap_vars, label_vars, barcode_vars, render_vars>>

StepsNext ==
    \/ EnterWrapText
    \/ StartLine
    \/ TryWord
    \/ CloseLine
    \/ ReturnWrapped
    \/ CallBreakLongWords

-----------------------------------------------------------------------------
(* two create_label_image calls running at the same time *)

RenderSizes == { <<8, 3>>, <<16, 7>>, <<5, 0>>, <<12, 0>>, <<1, 0>> }

RenderTexts == { <<>>, <<"A", " ", "A", "A", "A">> }

RenderBarcodes == { <<1, 1>>, <<1, 2>>, <<2, 2>> }

\* the LabelConfig as the call reads it: config.barcode is a reference
ConfigOf(c) ==
    [calls[c].config EXCEPT !.barcode = rasters[SuppliedRaster(c)]]

\* create_label_image run alone on config: whether it raises, and what it returns
RenderAlone(cfg) ==
    LET constructed == LabelLayout(cfg)
        scaled == IF constructed.is_endless
                  THEN EndlessBarcodeSize(constructed, cfg)
                  ELSE _scale_barcode_fixed(constructed, cfg)
        sized == IF constructed.width = 0
                 THEN [constructed EXCEPT
                          !.width = _calculate_endless_width(constructed, cfg, scaled)]
                 ELSE constructed
        canvas == [size |-> <<sized.width, sized.height>>,
                   barcode_xy |-> _place_barcode(sized, scaled),
                   main_text |-> _draw_main_text(sized, cfg, scaled),
                   metadata |-> _draw_metadata(sized, cfg, scaled)]
    IN  [raised |-> constructed.is_endless /\ ResizeRaises(scaled),
         label |-> canvas,
         image |-> IF sized.is_endless THEN rotate(canvas.size)
                   ELSE Unrotated(canvas.size)]

\* create_label_image builds the LabelConfig and the LabelLayout
RenderStart(c) ==
    /\ calls[c].pc = "idle"
    /\ \E label_size \in RenderSizes, text \in RenderTexts, bc \in RenderBarcodes :
        LET cfg == [label_size |-> label_size, text |-> text,
                    text_font |-> SmallFont, text_max_lines |-> MaxLines,
                    barcode |-> bc, best_before_date |-> <<"A", "A">>,
                    purchased_date |-> <<>>, amount |-> <<"i">>,
                    unit_name |-> <<>>, has_due_date_font |-> FALSE,
                    due_date_font |-> SmallFont]
        IN  /\ calls' = [calls EXCEPT ![c] = [NoCall EXCEPT !.pc = "constructed",
                                                           !.config = cfg,
                                                           !.layout = NewLayout(c),
                                                           !.barcode = SuppliedRaster(c)]]
            /\ layouts' = [layouts EXCEPT ![NewLayout(c)] = LabelLayout(cfg)]
            /\ rasters' = [rasters EXCEPT ![SuppliedRaster(c)] = bc]
    /\ UNCHANGED <<wrap_vars, label_vars, barcode_vars, steps_vars>>

\* create_label: barcode = self._process_barcode()
RenderProcessBarcode(c) ==
    /\ calls[c].pc = "constructed"
    /\ LET this == layouts[calls[c].layout]
           cfg == ConfigOf(c)
           new_size == IF this.is_endless THEN EndlessBarcodeSize(this, cfg)
                       ELSE _scale_barcode_fixed(this, cfg)
       IN  IF this.is_endless /\ ResizeRaises(new_size)
           THEN /\ calls' = [calls EXCEPT ![c].pc = "raised"]
                /\ UNCHANGED rasters
           ELSE IF ~this.is_endless /\ new_size = cfg.barcode
           THEN /\ calls' = [calls EXCEPT ![c].pc = "barcode",
                                          ![c].barcode = SuppliedRaster(c)]
                /\ UNCHANGED rasters
           ELSE /\ calls' = [calls EXCEPT ![c].pc = "barcode",
                                          ![c].barcode = ResizedRaster(c)]
                /\ rasters' = [rasters EXCEPT ![ResizedRaster(c)] = new_size]
    /\ UNCHANGED <<layouts, wrap_vars, label_vars, barcode_vars, steps_vars>>

\* create_label: if self.width == 0: self.width = self._calculate_endless_width(barcode)
RenderResolveWidth(c) ==
    /\ calls[c].pc = "barcode"
    /\ LET this == layouts[calls[c].layout]
       IN  layouts' = IF this.width = 0
                      THEN [layouts EXCEPT ![calls[c].layout].width =
                               _calculate_endless_width(this, ConfigOf(c),
                                                        rasters[calls[c].barcode])]
                      ELSE layouts
    /\ calls' = [calls EXCEPT ![c].pc = "sized"]
    /\ UNCHANGED <<rasters, wrap_vars, label_vars, barcode_vars, steps_vars>>

\* create_label: Image.new, _place_barcode and _draw_content
RenderCompose(c) ==
    /\ calls[c].pc = "sized"
    /\ LET this == layouts[calls[c].layout]
           cfg == ConfigOf(c)
           bc == rasters[calls[c].barcode]
       IN  calls' = [calls EXCEPT
                        ![c].pc = "composed",
                        ![c].label = [size |-> <<this.width, this.height>>,
                                      barcode_xy |-> _place_barcode(this, bc),
                                      main_text |-> _draw_main_text(this, cfg, bc),
                                      metadata |-> _draw_metadata(this, cfg, bc)]]
    /\ UNCHANGED <<layouts, rasters, wrap_vars, label_vars, barcode_vars, steps_vars>>

\* create_label: return label.rotate(-90, expand=True) if self.is_endless else label
RenderReturn(c) ==
    /\ calls[c].pc = "composed"
    /\ calls' = [calls EXCEPT
                    ![c].pc = "returned",
                    ![c].image = IF layouts[calls[c].layout].is_endless
                                 THEN rotate(calls[c].label.size)
                                 ELSE Unrotated(calls[c].label.size)]
    /\ UNCHANGED <<layouts, rasters, wrap_vars, label_vars, barcode_vars, steps_vars>>

RenderNext ==
    \E c \in Callers :
        \/ RenderStart(c)
        \/ RenderProcessBarcode(c)
        \/ RenderResolveWidth(c)
        \/ RenderCompose(c)
        \/ RenderReturn(c)

-----------------------------------------------------------------------------
(* Specifications *)

Next == CallWrapText \/ LabelNext \/ BarcodeNext \/ StepsNext \/ RenderNext

Spec == Init /\ [][Next]_vars

\* wrap_text alone
SpecWrap == Init /\ [][CallWrapText]_vars

\* create_label_image alone
SpecLabel == Init /\ [][LabelNext]_vars

\* create_barcode alone
SpecBarcode == Init /\ [][BarcodeNext]_vars

\* wrap_text followed loop by loop
SpecWrapSteps == Init /\ [][StepsNext]_vars

\* two concurrent create_label_image calls
SpecRender == Init /\ [][RenderNext]_vars

-----------------------------------------------------------------------------
(* Properties of wrap_text (SpecWrap) *)

WrapReturned == wrap_pc = "returned"

\* the call took the narrow-width truncation path (text.py:10)
WrapNarrow == wrap_args.max_width < 3 * getlength(wrap_args.font, <<"A">>)

\* the lines of the greedy fill, before the line count is limited
GreedyLines ==
    _create_lines(_break_long_words(Split(wrap_args.text), wrap_args.font,
                                    wrap_args.max_width),
                  wrap_args.font, wrap_args.max_width)

\* the newline-separated segments of the returned string
RetSegments == SplitLines(wrap_ret.text)

\* C1: the string returned by wrap_text has at most max_lines newline-separated
\* segments, on the normal path and on the narrow-width truncation path.
C1_LineCount ==
    WrapReturned => Len(RetSegments) <= wrap_args.max_lines

\* C2 as stated: a text measuring below max_width is returned unchanged and the
\* returned width is the measured width of the text.
C2_UnchangedBelowWidth ==
    (WrapReturned /\ getlength(wrap_args.font, wrap_args.text) < wrap_args.max_width)
        => /\ wrap_ret.text = wrap_args.text
           /\ wrap_ret.width = getlength(wrap_args.font, wrap_args.text)

\* the text is its words separated by single spaces, with no other whitespace
SingleSpaced(text) == text = Join(Split(text), <<" ">>)

\* C2 amended: on the normal path (max_width >= 3 * width('A')), a text of
\* single-space-separated words measuring below max_width is returned
\* unchanged and the returned width is the measured width of the text.
C2_UnchangedNormalPath ==
    (/\ WrapReturned
     /\ ~WrapNarrow
     /\ SingleSpaced(wrap_args.text)
     /\ getlength(wrap_args.font, wrap_args.text) < wrap_args.max_width)
        => /\ wrap_ret.text = wrap_args.text
           /\ wrap_ret.width = getlength(wrap_args.font, wrap_args.text)

C2_Witness ==
    /\ WrapReturned
    /\ ~WrapNarrow
    /\ SingleSpaced(wrap_args.text)
    /\ Len(Split(wrap_args.text)) >= 2
    /\ getlength(wrap_args.font, wrap_args.text) < wrap_args.max_width
    /\ wrap_ret.text = wrap_args.text

\* C3: when the greedy fill produces more than max_lines lines, the result is
\* exactly its first max_lines lines and the last of them ends with "...";
\* otherwise the result is the greedy lines, with no ellipsis appended.
C3_Ellipsis ==
    (WrapReturned /\ ~WrapNarrow) =>
        LET lines == GreedyLines
            n == wrap_args.max_lines
        IN  IF Len(lines) > n
            THEN /\ Len(RetSegments) = n
                 /\ \A k \in 1..(n - 1) : RetSegments[k] = lines[k]
                 /\ RetSegments[n] = lines[n] \o Ellipsis
            ELSE wrap_ret.text = Join(lines, <<"\n">>)

C3_Witness ==
    /\ WrapReturned
    /\ ~WrapNarrow
    /\ Len(GreedyLines) > wrap_args.max_lines
    /\ wrap_args.max_lines >= 2
    /\ Len(RetSegments) = wrap_args.max_lines

\* C4 as stated: on the narrow path the result is a prefix of the input,
\* optionally followed by "...", and is never longer than the input.
C4_NarrowNeverLonger ==
    (WrapReturned /\ WrapNarrow) =>
        /\ \E n \in 0..Len(wrap_args.text) :
              \/ wrap_ret.text = Take(wrap_args.text, n)
              \/ wrap_ret.text = Take(wrap_args.text, n) \o Ellipsis
        /\ Len(wrap_ret.text) <= Len(wrap_args.text)

\* C4 amended: on the narrow path the result is a prefix of the input,
\* followed by "..." exactly when the prefix is shorter than the input; it
\* is at most two characters longer than the input.
C4_NarrowPrefix ==
    (WrapReturned /\ WrapNarrow) =>
        /\ \E n \in 0..Len(wrap_args.text) :
              wrap_ret.text = Take(wrap_args.text, n)
                                \o (IF n < Len(wrap_args.text) THEN Ellipsis ELSE <<>>)
        /\ Len(wrap_ret.text) <= Len(wrap_args.text) + 2

C4_Witness ==
    /\ WrapReturned
    /\ WrapNarrow
    /\ Len(wrap_ret.text) = Len(wrap_args.text) + 2
    /\ wrap_ret.text = Take(wrap_args.text, 1) \o Ellipsis

-----------------------------------------------------------------------------
(* Properties of create_label_image (SpecLabel) *)

Endless == config.label_size[2] = 0

Fixed == config.label_size[2] # 0

BarcodeProcessed == label_pc \in {"barcode", "sized", "composed", "returned"}

WidthResolved == label_pc \in {"sized", "composed", "returned"}

Composed == label_pc \in {"composed", "returned"}

\* the barcode was resized by the integer factor s
ScaledBy(s) == barcode = <<s * config.barcode[1], s * config.barcode[2]>>

\* s keeps the barcode below the label height and below half the label width
FitsBelow(s) ==
    /\ s * config.barcode[2] < config.label_size[2]
    /\ 2 * s * config.barcode[1] < config.label_size[1]

\* s keeps the barcode below the label height and within half the label width
FitsWithin(s) ==
    /\ s * config.barcode[2] < config.label_size[2]
    /\ 2 * s * config.barcode[1] <= config.label_size[1]

\* C5 as stated: in fixed mode the factor applied to the barcode is the
\* largest member of {8,6,4,2,1} that keeps the scaled height below the label
\* height and the scaled width below half the label width.
C5_LargestFactorBelow ==
    (BarcodeProcessed /\ Fixed) =>
        \E s \in {8, 6, 4, 2, 1} :
            /\ ScaledBy(s)
            /\ FitsBelow(s)
            /\ \A t \in {8, 6, 4, 2, 1} : FitsBelow(t) => t <= s

\* C5 amended: in fixed mode the factor is the largest member of {8,6,4,2}
\* that keeps the scaled height below the label height and the scaled width
\* at most half the label width; when no member does, the barcode is used
\* unscaled, whether or not it fits the label.
C5_LargestFactorWithin ==
    (BarcodeProcessed /\ Fixed) =>
        IF \E s \in {8, 6, 4, 2} : FitsWithin(s)
        THEN \E s \in {8, 6, 4, 2} :
                /\ ScaledBy(s)
                /\ FitsWithin(s)
                /\ \A t \in {8, 6, 4, 2} : FitsWithin(t) => t <= s
        ELSE ScaledBy(1)

C5_Witness ==
    /\ BarcodeProcessed
    /\ Fixed
    /\ ScaledBy(6)
    /\ 2 * 6 * config.barcode[1] = config.label_size[1]

\* C6 as stated: in endless mode the resolved width is at least the scaled
\* barcode width plus 0.4 times the fixed dimension.
C6_WidthFloorExact ==
    (WidthResolved /\ Endless) =>
        10 * self.width >= 10 * barcode[1] + 4 * config.label_size[1]

\* C6 amended: in endless mode the resolved width is at least the scaled
\* barcode width plus 0.4 times the fixed dimension rounded down to a whole
\* pixel.
C6_WidthFloorRoundedDown ==
    (WidthResolved /\ Endless) =>
        self.width >= barcode[1] + (4 * config.label_size[1]) \div 10

C6_Witness ==
    /\ WidthResolved
    /\ Endless
    /\ config.text = <<>>
    /\ (4 * config.label_size[1]) % 10 # 0
    /\ self.width = barcode[1] + (4 * config.label_size[1]) \div 10

\* the width of the text as _draw_main_text draws it on an endless label
NaturalTextWidth == getlength(config.text_font, config.text)

DateWidth == getlength(self.due_date_font, _create_date_display(config))

AmountWidth == getlength(self.due_date_font, _create_amount_display(config))

\* C7: in endless mode the resolved width is scaled barcode width + half the
\* text font size + the largest of the natural text width, the date width
\* and the amount width, unless the floor is larger; so the unwrapped text
\* drawn at x = barcode width + gap ends inside the canvas.
C7_EndlessWidthHoldsText ==
    (Composed /\ Endless) =>
        /\ self.width =
              Max(barcode[1] + config.text_font.size \div 2
                     + Max(NaturalTextWidth, Max(DateWidth, AmountWidth)),
                  barcode[1] + (4 * config.label_size[1]) \div 10)
        /\ label.main_text.xy[1] + NaturalTextWidth <= label.size[1]

\* C8: the returned raster is rotated exactly when label_size[1] == 0; an
\* endless label (p, 0) of resolved width W comes back with size (p, W), a
\* fixed label comes back with the size of the canvas.
C8_RotatedIffEndless ==
    label_pc = "returned" =>
        /\ image.rotated <=> Endless
        /\ Endless => image.size = <<config.label_size[1], self.width>>
        /\ Fixed => image.size = label.size

C8_Witness ==
    /\ label_pc = "returned"
    /\ Endless
    /\ image.rotated
    /\ self.width # config.label_size[1]
    /\ image.size = <<config.label_size[1], self.width>>

\* C9: in fixed mode the call returns a raster of exactly label_size, also
\* for a barcode larger than the label; it never raises.
C9_FixedSize ==
    Fixed =>
        /\ label_pc # "raised"
        /\ label_pc = "returned" => image.size = config.label_size

C9_Witness ==
    /\ label_pc = "returned"
    /\ Fixed
    /\ config.barcode[1] > config.label_size[1]
    /\ config.barcode[2] > config.label_size[2]
    /\ config.label_size[1] # config.label_size[2]
    /\ image.size = config.label_size

-----------------------------------------------------------------------------
(* Properties of create_barcode (SpecBarcode) *)

\* C10: create_barcode with the DataMatrix variant never raises; when the
\* DataMatrix encoder fails the result is the QR encoding of the same text.
C10_DataMatrixNeverRaises ==
    barcode_args.barcode_type = "DataMatrix" =>
        /\ barcode_pc # "raised"
        /\ (/\ barcode_pc = "returned"
            /\ DataMatrixRaises(barcode_args.text, barcode_args.treepoem_ok))
              => barcode_ret = [symbology |-> "qr", data |-> barcode_args.text]

\* the call has left create_barcode for an encoder
Dispatched == barcode_pc \notin {"idle", "create_barcode"}

\* C11: create_barcode enters the QR encoder first only when the tag is
\* exactly "QRCode"; every other tag, known or not, enters create_datamatrix
\* first, and the call fails only where the payload overflows the QR symbol,
\* never because of the tag.
C11_OnlyQRCodeTagGoesToQR ==
    Dispatched =>
        /\ barcode_calls[1] = "create_qr_code" <=> barcode_args.barcode_type = "QRCode"
        /\ barcode_args.barcode_type # "QRCode" => barcode_calls[1] = "create_datamatrix"
        /\ barcode_pc = "raised" => QRRaises(barcode_args.text)
        /\ (barcode_pc = "returned" /\ barcode_args.barcode_type # "QRCode") =>
              barcode_ret.symbology =
                  IF DataMatrixRaises(barcode_args.text, barcode_args.treepoem_ok)
                  THEN "qr" ELSE "datamatrix"

C11_Witness ==
    /\ barcode_pc = "returned"
    /\ barcode_args.barcode_type = "Code128"
    /\ barcode_calls = <<"create_datamatrix">>
    /\ barcode_ret.symbology = "datamatrix"

\* C12: in endless mode the barcode is always rescaled, for every barcode of
\* at least 1x1 and every fixed dimension of at least 1, to a height equal to
\* the fixed dimension and a width of floor(w * fixed / h).
C12_EndlessScaleExact ==
    (Endless /\ label_pc # "idle") =>
        /\ label_pc # "raised"
        /\ BarcodeProcessed =>
             barcode = <<(config.barcode[1] * config.label_size[1]) \div config.barcode[2],
                         config.label_size[1]>>

\* C13: the date drawn is "{purchased} - {best_before}" when both dates are
\* non-empty, the one non-empty date when only one is, and nothing otherwise;
\* the amount drawn is "{amount} {unit}" when both are non-empty, the amount
\* alone when only the amount is, and nothing whenever the amount is empty,
\* even if a unit is given.
C13_DisplayStrings ==
    Composed =>
        /\ label.metadata.date.text =
             CASE config.purchased_date # <<>> /\ config.best_before_date # <<>> ->
                    config.purchased_date \o <<" ", "-", " ">> \o config.best_before_date
               [] config.purchased_date # <<>> /\ config.best_before_date = <<>> ->
                    config.purchased_date
               [] config.purchased_date = <<>> /\ config.best_before_date # <<>> ->
                    config.best_before_date
               [] OTHER -> <<>>
        /\ label.metadata.amount.text =
             CASE config.amount # <<>> /\ config.unit_name # <<>> ->
                    config.amount \o <<" ">> \o config.unit_name
               [] config.amount # <<>> /\ config.unit_name = <<>> -> config.amount
               [] OTHER -> <<>>

C13_Witness ==
    /\ Composed
    /\ config.amount = <<>>
    /\ config.unit_name # <<>>
    /\ label.metadata.amount.text = <<>>
    /\ config.purchased_date # <<>>
    /\ config.best_before_date # <<>>
    /\ label.metadata.date.text = <<"i", " ", "-", " ", "A", "A">>

\* C20: in fixed mode the wrapped text is drawn at x = barcode width +
\* (label width - barcode width - L) / 2, where L is the longest-line width
\* wrap_text returned for the band right of the barcode, and at y = 0.
C20_FixedTextCentered ==
    (Fixed /\ Composed) =>
        LET L == wrap_text(config.text, config.text_font,
                           config.label_size[1] - barcode[1], config.text_max_lines).width
        IN  label.main_text.xy =
                <<barcode[1] + (config.label_size[1] - barcode[1] - L) \div 2, 0>>

\* C15: wrap_text returns, for every text, font, max_width and max_lines, the
\* same wrapped string and the same longest-line width as the original
\* wrapText, the forced single-character fallback included.
C15_SameAsWrapText ==
    WrapReturned =>
        wrap_ret = wrapText(wrap_args.text, wrap_args.font,
                            wrap_args.max_width, wrap_args.max_lines)

-----------------------------------------------------------------------------
(* Properties of the loops of wrap_text (SpecWrapSteps) *)

\* the followed call took the narrow-width truncation path (text.py:10)
StepsNarrow == steps_args.max_width < 3 * getlength(steps_args.font, <<"A">>)

\* the followed call is on the normal path, past _break_long_words
InCreateLines == steps_pc # "idle" /\ ~StepsNarrow

\* C14: every pass of the outer loop of _create_lines takes at least one word
\* off the pending list, so the passes never outnumber the words after
\* splitting, and every call that has not returned can take its next step.
C14_EachPassConsumesAWord ==
    /\ iterations <= Len(frame.words)
    /\ steps_pc = "outer" => Len(frame.words_copy) + iterations <= Len(frame.words)
    /\ steps_pc \in {"outer", "inner", "close"} =>
           ENABLED (StartLine \/ TryWord \/ CloseLine \/ ReturnWrapped)

C14_Witness ==
    /\ steps_pc = "returned"
    /\ iterations = Len(frame.words)
    /\ iterations >= 3
    /\ \E k \in 1..Len(line_from) : line_from[k].forced

\* result holds the words of src in order, each word at least max_width wide
\* replaced by its two halves, the first with a hyphen (or by its first
\* character when max_width is under 1.5 times the width of "A")
BrokenInPlace(src, result, font, max_width) ==
    LET first_only == 2 * max_width < 3 * getlength(font, <<"A">>)
        wide(j) == getlength(font, src[j]) >= max_width
        extra(i) == IF first_only THEN 0
                    ELSE Cardinality({j \in 1..i : wide(j)})
    IN  /\ Len(result) = Len(src) + extra(Len(src))
        /\ \A i \in 1..Len(src) :
              LET at == i + extra(i - 1)
                  mid == Len(src[i]) \div 2
              IN  IF ~wide(i) THEN result[at] = src[i]
                  ELSE IF first_only THEN result[at] = <<src[i][1]>>
                  ELSE /\ result[at] = SubSeq(src[i], 1, mid) \o <<"-">>
                       /\ result[at + 1] = SubSeq(src[i], mid + 1, Len(src[i]))

\* C17: on the normal path every word measuring at least max_width is
\* replaced, in place and once, by word[:mid] + "-" and word[mid:] with
\* mid = len(word) // 2 (by its first character when max_width is under 1.5
\* times the width of "A"); narrower words are kept, and words and fragments
\* stay in reading order.
C17_LongWordsBrokenInPlace ==
    /\ InCreateLines =>
           BrokenInPlace(Split(steps_args.text), frame.words,
                         steps_args.font, steps_args.max_width)
    /\ break_pc = "returned" =>
           BrokenInPlace(break_args.words, break_ret,
                         break_args.font, break_args.max_width)

C17_Witness ==
    /\ steps_pc = "returned"
    /\ ~StepsNarrow
    /\ Len(Split(steps_args.text)) >= 2
    /\ Len(frame.words) = Len(Split(steps_args.text)) + 1
    /\ getlength(steps_args.font, frame.words[2]) >= steps_args.max_width

\* the line before the one being started, with the pending word appended
PreviousLineWith(word) == frame.lines[Len(frame.lines)] \o <<" ">> \o word

\* a line is being started with a pending word, after an earlier line
WordMovedDown ==
    /\ steps_pc = "inner"
    /\ frame.line_words = <<>>
    /\ frame.lines # <<>>
    /\ frame.words_copy # <<>>

\* C18 as stated: every line not made by the forced fallback measures below
\* max_width before any ellipsis, and a word goes to a new line only when
\* appending it to the current line would measure max_width or more.
C18_MovedOnlyOnOverflow ==
    /\ \A k \in 1..Len(frame.lines) :
          ~line_from[k].forced =>
              getlength(steps_args.font, frame.lines[k]) < steps_args.max_width
    /\ WordMovedDown =>
          getlength(steps_args.font, PreviousLineWith(Head(frame.words_copy)))
              >= steps_args.max_width

\* C18: every line not made by the forced fallback measures below max_width
\* before any ellipsis, and a word goes to a new line only when appending it
\* to the current line would measure max_width or more, or when the current
\* line is a forced single-character line, which is closed at once.
C18_MovedOnOverflowOrAfterForced ==
    /\ \A k \in 1..Len(frame.lines) :
          ~line_from[k].forced =>
              getlength(steps_args.font, frame.lines[k]) < steps_args.max_width
    /\ WordMovedDown =>
          \/ getlength(steps_args.font, PreviousLineWith(Head(frame.words_copy)))
                 >= steps_args.max_width
          \/ line_from[Len(frame.lines)].forced

C18_Witness ==
    /\ WordMovedDown
    /\ line_from[Len(frame.lines)].forced
    /\ getlength(steps_args.font, PreviousLineWith(Head(frame.words_copy)))
           < steps_args.max_width
    /\ \E k \in 1..Len(frame.lines) : ~line_from[k].forced

\* the words taken off the pending list, each as it reached a line
Placed == [k \in 1..Len(trail) |->
              IF trail[k].forced THEN <<trail[k].word[1]>> ELSE trail[k].word]

\* C19: a word that does not fit on an empty line leaves exactly its first
\* character as the whole line and the rest of it is discarded, not requeued;
\* no other character is dropped, so without a forced line and without
\* truncation the output lines hold exactly the words and fragments of the
\* splitting step, in order.
C19_ForcedKeepsFirstCharacter ==
    /\ \A k \in 1..Len(line_from) :
          line_from[k].forced => frame.lines[k] = <<line_from[k].words[1][1]>>
    /\ (steps_pc = "returned" /\ ~StepsNarrow) =>
          /\ Len(trail) = Len(frame.words)
          /\ \A k \in 1..Len(trail) : trail[k].word = frame.words[k]
          /\ Join(frame.lines, <<" ">>) = Join(Placed, <<" ">>)
          /\ ((\A k \in 1..Len(trail) : ~trail[k].forced)
                /\ Len(frame.lines) <= steps_args.max_lines) =>
                 Split(steps_ret.text) = frame.words

C19_Witness ==
    /\ steps_pc = "returned"
    /\ ~StepsNarrow
    /\ \E k \in 1..Len(trail) : trail[k].forced /\ Len(trail[k].word) > 1
    /\ \E k \in 1..Len(trail) : ~trail[k].forced

-----------------------------------------------------------------------------
(* Properties of concurrent renders (SpecRender) *)

\* C16: a render keeps its resolved width, its scaled barcode and its canvas
\* in objects of its own and never modifies the barcode image or the
\* argument values it was given, so under every interleaving of two
\* create_label_image calls each call ends as it would when run alone.
C16_RendersDoNotInterfere ==
    \A c \in Callers :
        /\ calls[c].pc # "idle" =>
               rasters[SuppliedRaster(c)] = calls[c].config.barcode
        /\ calls[c].pc = "raised" => RenderAlone(calls[c].config).raised
        /\ calls[c].pc \in {"composed", "returned"} =>
               /\ ~RenderAlone(calls[c].config).raised
               /\ calls[c].label = RenderAlone(calls[c].config).label
        /\ calls[c].pc = "returned" =>
               calls[c].image = RenderAlone(calls[c].config).image

C16_Witness ==
    /\ calls[1].pc = "composed"
    /\ calls[2].pc = "sized"
    /\ calls[1].config.label_size = <<12, 0>>
    /\ calls[2].config.label_size = <<5, 0>>
    /\ calls[1].barcode = ResizedRaster(1)
    /\ calls[2].barcode = ResizedRaster(2)
    /\ layouts[1].width # layouts[2].width

====
